---- MODULE Spec2Model ----
(***************************************************************************)
(* Model of jira_agile_metrics/utils.py: the month breakdown of items     *)
(* (breakdown_by_month, breakdown_by_month_sum_days) and the table        *)
(* filters (filter_by_columns, filter_by_threshold, filter_by_window,     *)
(* sort_colums_by_last_row).                                              *)
(*                                                                         *)
(* A DataFrame is a record [index, columns, data]: index is the sequence  *)
(* of row labels (month numbers), columns the sequence of column labels,  *)
(* data the sequence of rows, each a sequence of cells laid out as        *)
(* columns is.  Timestamps are day numbers, day 1 being 2018-01-01 at     *)
(* midnight (the items of the tests carry dates without a time of day);   *)
(* months are numbered from 1 = January 2018.                             *)
(***************************************************************************)
EXTENDS Integers, Sequences, FiniteSets, TLC

VARIABLES
    issues,     \* the DataFrame of items handed to a breakdown: a sequence of item rows
    today,      \* the day pd.Timestamp.today() falls on
    df,         \* the table object handed to a filter, as it is after the call
    df_before,  \* that same table object as it was when the call was made
    args,       \* the second argument of the call (names, threshold, window, ascending)
    op,         \* the function that was called, "none" before the call
    raised,     \* the exception the call raised, "none" when it returned
    result,     \* the table the call returned
    is_df,      \* TRUE when the call returned the very object it was handed
    settings,   \* the configuration a calculator reads
    chart_data, \* what the calculator's run step returned (get_result())
    pc,         \* the position of a calculator's run / write, "idle" outside one
    chart,      \* the defects chart being written ("priority", "type", "environment")
    breakdown,  \* the table a write step has built so far
    stages,     \* the table stages the chart being written has gone through, in order
    rendered    \* the charts whose renderer was invoked

\* The state of the calculators (defects, net flow, waste).
calculator_vars == <<settings, chart_data, pc, chart, breakdown, stages, rendered>>

vars == <<issues, today, df, df_before, args, op, raised, result, is_df,
          settings, chart_data, pc, chart, breakdown, stages, rendered>>

----------------------------------------------------------------------------
(* Values *)

\* Python's None as a category (column label).
None == "<None>"
\* pd.NaT: the end of an item that is still open.  Days are numbered from 1.
NaT == 0
\* The missing cell pd.concat leaves where a frame has no such column.
NaN == 0 - 1

EmptyFrame == [index |-> <<>>, columns |-> <<>>, data |-> <<>>]

\* The calculators' state while no calculator runs.
NoSettings == [name |-> "none"]
NoChartData == [none |-> TRUE, rows |-> <<>>]
CalculatorsIdle ==
    /\ settings = NoSettings
    /\ chart_data = NoChartData
    /\ pc = "idle"
    /\ chart = "none"
    /\ breakdown = EmptyFrame
    /\ stages = <<>>
    /\ rendered = {}

\* The second argument of a filter call; a call sets the field it takes.
NoArgs == [output_columns |-> <<>>, threshold |-> 0, window |-> 0, ascending |-> FALSE]

\* Python's order of the strings that occur as labels (code point order).
StrOrder == <<"Others", "a", "b", "high", "med", "zz">>
StrRank(s) == CHOOSE i \in DOMAIN StrOrder : StrOrder[i] = s
StrLess(s, t) == StrRank(s) < StrRank(t)

Range(s) == {s[i] : i \in DOMAIN s}

RECURSIVE SumSeq(_)
SumSeq(s) == IF s = <<>> THEN 0 ELSE Head(s) + SumSeq(Tail(s))

\* The sequences over S of length at most n, and those without a repeated element.
SeqsUpTo(S, n) == UNION {[1..k -> S] : k \in 0..n}
InjSeqs(S, n) ==
    {s \in SeqsUpTo(S, n) : \A i, j \in DOMAIN s : i # j => s[i] # s[j]}

----------------------------------------------------------------------------
(* The calendar of 2018, as pandas' periods and offsets compute it *)

Months == 1..12
MonthLen(m) ==
    IF m \in {1, 3, 5, 7, 8, 10, 12} THEN 31 ELSE IF m = 2 THEN 28 ELSE 30

RECURSIVE DaysBefore(_)
DaysBefore(m) == IF m = 1 THEN 0 ELSE DaysBefore(m - 1) + MonthLen(m - 1)

\* First and last day of each month (tables, evaluated once).
MonthStartDay == [m \in Months |-> DaysBefore(m) + 1]
MonthEndDay == [m \in Months |-> DaysBefore(m) + MonthLen(m)]

\* ts.normalize().to_period("M").to_timestamp("D", "S"): the month a day falls in.
to_period_M(d) == CHOOSE m \in Months : MonthStartDay[m] <= d /\ d <= MonthEndDay[m]

\* pd.date_range(first, last, freq="MS"): the month starts from first to last;
\* empty when first is after last.
date_range_MS(first_month, last_month) ==
    [i \in 1..(IF last_month >= first_month THEN last_month - first_month + 1 ELSE 0)
        |-> first_month + i - 1]

\* pd.date_range(start, end, freq="D"): the days from start to end, both included.
date_range_D(start_date, end_date) == {d \in start_date..end_date : TRUE}

\* month_start + offsets.MonthEnd(1): the last day of the month that starts there.
MonthEnd(month) == MonthEndDay[month]

----------------------------------------------------------------------------
(* pandas: the frames of one item, their concatenation and the resampling *)

\* end_date of an item: pd.Timestamp.today() when it is pd.NaT.
end_date_of(t, now) == IF t.end = NaT THEN now ELSE t.end

\* The month index both build_df functions give an item's frame.
month_index(t, now) ==
    date_range_MS(to_period_M(t.start), to_period_M(end_date_of(t, now)))

\* A build_df that puts the key in the item's first month only.
build_df_first_month_only(t, now) ==
    LET index == month_index(t, now)
    IN [index |-> index, columns |-> <<t.value>>,
        data |-> [i \in DOMAIN index |-> <<IF i = 1 THEN t.key ELSE NaN>>]]

\* build_df of breakdown_by_month: one column named by the item's value, holding
\* the item's key in the row of every month of the item's index (pandas repeats
\* the single cell of data=[[key]] over the index).
build_df(t, now) ==
    LET index == month_index(t, now)
    IN [index |-> index, columns |-> <<t.value>>,
        data |-> [i \in DOMAIN index |-> <<t.key>>]]

\* An overlap that leaves out the month's last day.
overlap_days_without_month_end(month_start, days_range) ==
    Cardinality(date_range_D(MonthStartDay[month_start], MonthEnd(month_start) - 1)
                    \cap days_range)

\* len(pd.date_range(month_start, month_start + MonthEnd(1), freq="D")
\*         .intersection(days_range))
overlap_days(month_start, days_range) ==
    Cardinality(date_range_D(MonthStartDay[month_start], MonthEnd(month_start))
                    \cap days_range)

\* build_df of breakdown_by_month_sum_days: one column named by the item's value,
\* holding for every month of the index the days of the month the item covers.
build_df_sum_days(t, now) ==
    LET days_range == date_range_D(t.start, end_date_of(t, now))
        index == month_index(t, now)
    IN [index |-> index, columns |-> <<t.value>>,
        data |-> [i \in DOMAIN index |-> <<overlap_days(index[i], days_range)>>]]

\* The labels of the frames' columns, each once, in the order they first appear.
RECURSIVE unique_labels(_)
unique_labels(frames) ==
    IF frames = <<>> THEN <<>>
    ELSE LET before == unique_labels(SubSeq(frames, 1, Len(frames) - 1))
             last == frames[Len(frames)].columns
         IN before \o SelectSeq(last, LAMBDA c : c \notin Range(before))

\* Python can order labels only when they are all strings (None < "x" is a TypeError).
sortable(labels) == None \notin Range(labels) \/ Range(labels) = {None}

sort_values(labels) ==
    CHOOSE s \in [DOMAIN labels -> Range(labels)] :
        /\ Range(s) = Range(labels)
        /\ \A i, j \in DOMAIN s : i < j => (s[i] = s[j] \/ StrLess(s[i], s[j]))

\* The columns pd.concat(..., sort=True) gives the result: the union of the
\* frames' columns, sorted; pandas swallows the TypeError of a sort that mixes
\* None with strings and keeps the labels in the order they first appear
\* (utils_test.py expects [None, "med"] of items whose first has value None).
combined_columns(frames) ==
    LET labels == unique_labels(frames)
    IN IF Range(labels) = {None} \/ ~sortable(labels) THEN labels
       ELSE sort_values(labels)

\* The row of frame f at position i, laid out on the columns cols (NaN where f
\* has no such column).
reindexed_row(f, i, cols) ==
    [c \in DOMAIN cols |->
        IF cols[c] \in Range(f.columns)
        THEN f.data[i][CHOOSE k \in DOMAIN f.columns : f.columns[k] = cols[c]]
        ELSE NaN]

RECURSIVE stack_rows(_, _)
stack_rows(frames, cols) ==
    IF frames = <<>> THEN [index |-> <<>>, data |-> <<>>]
    ELSE LET rest == stack_rows(Tail(frames), cols)
             f == Head(frames)
         IN [index |-> f.index \o rest.index,
             data |-> [i \in DOMAIN f.index |-> reindexed_row(f, i, cols)] \o rest.data]

\* A concat that accepts an empty list of frames.
concat_never_raises(frames) == FALSE

\* pd.concat(frames, sort=True) raises ValueError("No objects to concatenate")
\* when it is handed no frame.
concat_raises(frames) == frames = <<>>

\* pd.concat(frames, sort=True) of at least one frame.
concat(frames) ==
    LET cols == combined_columns(frames)
        rows == stack_rows(frames, cols)
    IN [index |-> rows.index, columns |-> cols, data |-> rows.data]

RECURSIVE SumSet(_, _)
SumSet(f, S) ==
    IF S = {} THEN 0
    ELSE LET x == CHOOSE y \in S : TRUE IN f[x] + SumSet(f, S \ {x})

\* aggfunc over the cells of column c in the rows at the positions rows:
\* "count" counts the cells that are not NaN, "sum" adds them up (0 when none).
agg(frame, rows, c, aggfunc) ==
    LET valid == {r \in rows : frame.data[r][c] # NaN}
    IN IF aggfunc = "count" THEN Cardinality(valid)
       ELSE SumSet([r \in valid |-> frame.data[r][c]], valid)

\* frame.resample("MS").agg(aggfunc): one row per month from the earliest to the
\* latest month of the frame's index, each cell the aggregate of the month's rows.
resample_MS_agg(frame, aggfunc) ==
    IF frame.index = <<>> THEN [index |-> <<>>, columns |-> frame.columns, data |-> <<>>]
    ELSE LET lo == CHOOSE m \in Range(frame.index) : \A n \in Range(frame.index) : m <= n
             hi == CHOOSE m \in Range(frame.index) : \A n \in Range(frame.index) : m >= n
             index == date_range_MS(lo, hi)
         IN [index |-> index, columns |-> frame.columns,
             data |-> [i \in DOMAIN index |->
                         [c \in DOMAIN frame.columns |->
                             agg(frame, {r \in DOMAIN frame.index : frame.index[r] = index[i]},
                                 c, aggfunc)]]]

----------------------------------------------------------------------------
(* utils.py: the two breakdowns, as functions of the items and of today *)

\* [build_df(t) for t in df.itertuples()]
frames_of(items, now) == [i \in DOMAIN items |-> build_df(items[i], now)]
frames_sum_days_of(items, now) == [i \in DOMAIN items |-> build_df_sum_days(items[i], now)]

\* The outcome of a call: the exception raised ("none" when it returns) and the
\* table returned.
Returns(table) == [raised |-> "none", table |-> table]
Raises(exception) == [raised |-> exception, table |-> EmptyFrame]

breakdown_by_month(items, now) ==
    IF concat_raises(frames_of(items, now)) THEN Raises("ValueError")
    ELSE Returns(resample_MS_agg(concat(frames_of(items, now)), "count"))

breakdown_by_month_sum_days(items, now) ==
    IF concat_raises(frames_sum_days_of(items, now)) THEN Raises("ValueError")
    ELSE Returns(resample_MS_agg(concat(frames_sum_days_of(items, now)), "sum"))

----------------------------------------------------------------------------
(* The breakdowns as a state machine: items are drawn, then one is called *)

MaxItems == 2

\* The days items start and end on: 2 and 20 January, 28 February, 10 April.
SampleDays == {2, 20, 59, 100}
\* The days the run may take place on: 10 April and 1 May.
Todays == {100, 121}
Categories == {"high", "med", None}

\* An item row: value is its category, end is NaT while it is open; an item
\* ends no earlier than it starts.
Items ==
    {t \in [value : Categories, start : SampleDays, end : SampleDays \cup {NaT}] :
        t.end = NaT \/ t.start <= t.end}

\* The item DataFrame of the item rows s: row i carries the key i.
ItemFrame(s) ==
    [i \in DOMAIN s |-> [key |-> i, value |-> s[i].value,
                         start |-> s[i].start, end |-> s[i].end]]

InitBreakdown ==
    /\ \E s \in SeqsUpTo(Items, MaxItems) : issues = ItemFrame(s)
    /\ today \in Todays
    /\ df = EmptyFrame
    /\ df_before = EmptyFrame
    /\ args = NoArgs
    /\ op = "none"
    /\ raised = "none"
    /\ result = EmptyFrame
    /\ is_df = FALSE
    /\ CalculatorsIdle

BreakdownByMonth ==
    /\ op = "none"
    /\ LET out == breakdown_by_month(issues, today)
       IN /\ raised' = out.raised
          /\ result' = out.table
    /\ op' = "breakdown_by_month"
    /\ UNCHANGED <<issues, today, df, df_before, args, is_df>>
    /\ UNCHANGED calculator_vars

BreakdownByMonthSumDays ==
    /\ op = "none"
    /\ LET out == breakdown_by_month_sum_days(issues, today)
       IN /\ raised' = out.raised
          /\ result' = out.table
    /\ op' = "breakdown_by_month_sum_days"
    /\ UNCHANGED <<issues, today, df, df_before, args, is_df>>
    /\ UNCHANGED calculator_vars

NextBreakdown == BreakdownByMonth \/ BreakdownByMonthSumDays

SpecBreakdown == InitBreakdown /\ [][NextBreakdown]_vars

----------------------------------------------------------------------------
(* Claims about the breakdowns (checked under SpecBreakdown) *)

Min(S) == CHOOSE x \in S : \A y \in S : x <= y
Max(S) == CHOOSE x \in S : \A y \in S : x >= y

\* The effective end of an item, and the months it starts and ends in.
EffectiveEnd(t) == IF t.end = NaT THEN today ELSE t.end
StartMonth(t) == to_period_M(t.start)
EndMonth(t) == to_period_M(EffectiveEnd(t))

\* The rows the claims expect: every month from the earliest start month to the
\* latest effective-end month.
ExpectedMonths ==
    LET first == Min({StartMonth(issues[k]) : k \in DOMAIN issues})
        last == Max({EndMonth(issues[k]) : k \in DOMAIN issues})
    IN [i \in 1..(last - first + 1) |-> first + i - 1]

\* The columns are the categories of the items, each once.
ColumnsAreCategories ==
    /\ Range(result.columns) = {issues[k].value : k \in DOMAIN issues}
    /\ \A c, d \in DOMAIN result.columns : c # d => result.columns[c] # result.columns[d]

\* The days of month m that fall in [start, effective end] of item t, by arithmetic.
DaysInMonth(t, m) ==
    LET lo == IF t.start > MonthStartDay[m] THEN t.start ELSE MonthStartDay[m]
        hi == IF EffectiveEnd(t) < MonthEndDay[m] THEN EffectiveEnd(t) ELSE MonthEndDay[m]
    IN IF hi >= lo THEN hi - lo + 1 ELSE 0

\* C1: for a non-empty set of items, breakdown_by_month (count) returns one row
\* per calendar month from the earliest start month to the latest effective-end
\* month, without gaps, and the cell (m, c) is the number of items of category c
\* with start month <= m <= effective-end month (0 when there is none).
C1_CountByMonth ==
    (op = "breakdown_by_month" /\ issues # <<>>) =>
        /\ raised = "none"
        /\ result.index = ExpectedMonths
        /\ ColumnsAreCategories
        /\ \A i \in DOMAIN result.index : \A c \in DOMAIN result.columns :
               result.data[i][c] =
                   Cardinality({k \in DOMAIN issues :
                       /\ issues[k].value = result.columns[c]
                       /\ StartMonth(issues[k]) <= result.index[i]
                       /\ result.index[i] <= EndMonth(issues[k])})

\* C1 witness: a count table of two categories with a month no item covers (a
\* row of zeros between the items) has been returned.
C1_Witness ==
    /\ op = "breakdown_by_month"
    /\ raised = "none"
    /\ Len(result.columns) = 2
    /\ \E i \in DOMAIN result.index :
           /\ 1 < i /\ i < Len(result.index)
           /\ \A c \in DOMAIN result.columns : result.data[i][c] = 0

\* C2: for a non-empty set of items, breakdown_by_month_sum_days returns in the
\* cell (m, c) the sum over the items of category c of the days of
\* [start, effective end] that fall in month m; an item alone that lies within
\* one month from day D1 to day D2 gives the single value D2 - D1 + 1 (1 when
\* it starts and ends on the same day).
C2_SumOverlapDays ==
    (op = "breakdown_by_month_sum_days" /\ issues # <<>>) =>
        /\ raised = "none"
        /\ result.index = ExpectedMonths
        /\ ColumnsAreCategories
        /\ \A i \in DOMAIN result.index : \A c \in DOMAIN result.columns :
               LET of_c == {k \in DOMAIN issues : issues[k].value = result.columns[c]}
               IN result.data[i][c] =
                      SumSet([k \in of_c |-> DaysInMonth(issues[k], result.index[i])], of_c)
        /\ (Len(issues) = 1 /\ StartMonth(issues[1]) = EndMonth(issues[1])) =>
               /\ result.data = <<<<EffectiveEnd(issues[1]) - issues[1].start + 1>>>>
               /\ (issues[1].start = EffectiveEnd(issues[1]) => result.data = <<<<1>>>>)

\* C2 witness: a day-sum table was returned in which two items of one category
\* add up to more days than the month has.
C2_Witness ==
    /\ op = "breakdown_by_month_sum_days"
    /\ raised = "none"
    /\ \E i \in DOMAIN result.index : \E c \in DOMAIN result.columns :
           result.data[i][c] > MonthLen(result.index[i])

\* The item frames with the rows of items in another order.
Reorderings(items) ==
    {[i \in DOMAIN items |-> items[f[i]]] : f \in Permutations(DOMAIN items)}

\* C3: both breakdowns are invariant to the order of the items: every
\* permutation of the items gives the same table (same month rows, same category
\* columns in the same order, same cells).
C3_OrderInvariant ==
    /\ op = "breakdown_by_month" =>
           \A p \in Reorderings(issues) :
               breakdown_by_month(p, today) = [raised |-> raised, table |-> result]
    /\ op = "breakdown_by_month_sum_days" =>
           \A p \in Reorderings(issues) :
               breakdown_by_month_sum_days(p, today) = [raised |-> raised, table |-> result]

\* C4 as claimed: with zero items both breakdowns return an empty table (no
\* month rows, no columns) as a normal result.
C4_EmptyTableOnZeroItems ==
    (op \in {"breakdown_by_month", "breakdown_by_month_sum_days"} /\ issues = <<>>) =>
        /\ raised = "none"
        /\ result = EmptyFrame

\* C4 as amended: with zero items both breakdowns raise ValueError (pd.concat
\* has nothing to concatenate) and return no table; with at least one item they
\* return normally.
C4_RaisesOnZeroItems ==
    op \in {"breakdown_by_month", "breakdown_by_month_sum_days"} =>
        (raised = "ValueError" <=> issues = <<>>) /\ raised \in {"none", "ValueError"}

\* C4 witness: a breakdown was called with zero items and raised.
C4_Witness ==
    /\ op = "breakdown_by_month_sum_days"
    /\ issues = <<>>
    /\ raised = "ValueError"

----------------------------------------------------------------------------
(* utils.py: the table filters *)

\* The position of the column labelled c in table t.
column_position(t, c) == CHOOSE k \in DOMAIN t.columns : t.columns[k] = c

\* t[labels]: a new table of the columns labelled labels, in that order.
select_columns(t, labels) ==
    [index |-> t.index, columns |-> labels,
     data |-> [r \in DOMAIN t.data |->
                 [k \in DOMAIN labels |-> t.data[r][column_position(t, labels[k])]]]]

\* A selection that keeps the table's own column order.
selected_labels_in_table_order(t, output_columns) ==
    SelectSeq(t.columns, LAMBDA c : c \in Range(output_columns))

\* [s for s in output_columns if s in df.columns]
selected_labels(t, output_columns) ==
    SelectSeq(output_columns, LAMBDA c : c \in Range(t.columns))

\* filter_by_columns: the outcome, with the table object as the call leaves it
\* and whether the object itself was returned.  An absent (None) list of names
\* is falsy like the empty list and is modelled by it.
filter_by_columns(t, output_columns) ==
    IF output_columns # <<>>
    THEN [raised |-> "none", df |-> t, same |-> FALSE,
          table |-> select_columns(t, selected_labels(t, output_columns))]
    ELSE [raised |-> "none", df |-> t, same |-> TRUE, table |-> t]

\* df.sum(axis=1): the total of every row.
row_totals(t) == [r \in DOMAIN t.data |-> SumSeq(t.data[r])]

\* (df * 100.0 / total[1] < threshold).all(), for the column at position c.
\* Cells and thresholds are non-negative integers: value * 100.0 / divisor <
\* threshold is then value * 100 < threshold * divisor when the divisor is
\* positive; a divisor of 0 gives inf or NaN, which is below no threshold.
threshold_mask(t, divisor, threshold, c) ==
    \A r \in DOMAIN t.data :
        divisor > 0 /\ t.data[r][c] * 100 < threshold * divisor

\* df["Others"] = values: the column is overwritten where it stands when the
\* table has one, and appended otherwise.  The table object itself changes.
set_column_Others(t, values) ==
    IF "Others" \in Range(t.columns)
    THEN [t EXCEPT !.data = [r \in DOMAIN t.data |->
                               [t.data[r] EXCEPT ![column_position(t, "Others")] = values[r]]]]
    ELSE [t EXCEPT !.columns = Append(t.columns, "Others"),
                   !.data = [r \in DOMAIN t.data |-> Append(t.data[r], values[r])]]

\* filter_by_threshold.  total[1] is the total of the second row (the index is
\* a DatetimeIndex, an integer key is a position) and raises IndexError when
\* the table has fewer than two rows.
filter_by_threshold(t, threshold) ==
    IF threshold # 0
    THEN IF Len(t.data) < 2
         THEN [raised |-> "IndexError", df |-> t, same |-> FALSE, table |-> EmptyFrame]
         ELSE LET total == row_totals(t)
                  masked == {c \in DOMAIN t.columns : threshold_mask(t, total[2], threshold, c)}
                  others == [r \in DOMAIN t.data |->
                                SumSet([c \in masked |-> t.data[r][c]], masked)]
                  assigned == set_column_Others(t, others)
                  kept == SelectSeq(assigned.columns,
                              LAMBDA c : c = "Others" \/ column_position(t, c) \notin masked)
              IN [raised |-> "none", df |-> assigned, same |-> FALSE,
                  table |-> select_columns(assigned, kept)]
    ELSE [raised |-> "none", df |-> t, same |-> TRUE, table |-> t]

\* A window that keeps the leading rows (df[:window]).
filter_by_window_leading(t, window) ==
    IF window # 0
    THEN LET n == Len(t.index)
             to == IF window >= n THEN n ELSE window
         IN [raised |-> "none", df |-> t, same |-> FALSE,
             table |-> [index |-> SubSeq(t.index, 1, to), columns |-> t.columns,
                        data |-> SubSeq(t.data, 1, to)]]
    ELSE [raised |-> "none", df |-> t, same |-> TRUE, table |-> t]

\* filter_by_window: df[-window:] is a new table of the last window rows (all
\* of them when window exceeds the row count).
filter_by_window(t, window) ==
    IF window # 0
    THEN LET n == Len(t.index)
             from == IF window >= n THEN 1 ELSE n - window + 1
         IN [raised |-> "none", df |-> t, same |-> FALSE,
             table |-> [index |-> SubSeq(t.index, from, n), columns |-> t.columns,
                        data |-> SubSeq(t.data, from, n)]]
    ELSE [raised |-> "none", df |-> t, same |-> TRUE, table |-> t]

\* An order test that sorts ascending whatever was asked.
sorted_pair_always_ascending(x, y, ascending) == x <= y

\* Two neighbouring values of the sorted row are in the order asked for.
sorted_pair(x, y, ascending) == IF ascending THEN x <= y ELSE x >= y

\* df.sort_values(by=df.last_valid_index(), axis=1, ascending=ascending) sorts
\* with the default kind="quicksort", which is not a stable sort: every column
\* order that sorts the last row is a possible outcome.  The tables hold no
\* NaN, so the last valid index is the last row.
sort_values_outcomes(t, ascending) ==
    LET last == t.data[Len(t.data)]
    IN {p \in Permutations(DOMAIN t.columns) :
           \A i, j \in DOMAIN t.columns :
               i < j => sorted_pair(last[p[i]], last[p[j]], ascending)}

take_columns(t, p) ==
    [index |-> t.index, columns |-> [k \in DOMAIN t.columns |-> t.columns[p[k]]],
     data |-> [r \in DOMAIN t.data |-> [k \in DOMAIN t.columns |-> t.data[r][p[k]]]]]

\* sort_colums_by_last_row: the outcomes of a call.
sort_colums_by_last_row(t, ascending) ==
    IF Len(t.index) > 0 /\ Len(t.columns) > 0
    THEN {[raised |-> "none", df |-> t, same |-> FALSE, table |-> take_columns(t, p)] :
             p \in sort_values_outcomes(t, ascending)}
    ELSE {[raised |-> "none", df |-> t, same |-> TRUE, table |-> t]}

----------------------------------------------------------------------------
(* The filters as a state machine: a table is drawn, then one filter is called *)

\* A table has at most MaxCells cells (rows times columns), and at most
\* MaxCells rows when it has no column.
MaxCells == 6

ColumnLabels == {"a", "b", "Others"}
CellValues == {0, 1, 99}
\* The lists of names handed to filter_by_columns ("zz" is no column of any table).
NameLists == {<<>>, <<"b", "a">>, <<"b", "zz", "a">>, <<"a", "a">>, <<"zz">>,
              <<"Others", "b">>}
Thresholds == {0, 34, 50}
Windows == {0, 1, 3}

\* The column layouts: distinct labels in any order.
ColumnLayouts == InjSeqs(ColumnLabels, Cardinality(ColumnLabels))

\* The table of n rows (consecutive months) with the columns cols and the cells rows.
Table(n, cols, rows) == [index |-> [r \in 1..n |-> r], columns |-> cols, data |-> rows]

InitFilters ==
    /\ issues = <<>>
    /\ today = Max(Todays)
    /\ \E cols \in ColumnLayouts :
       \E n \in 0..(IF cols = <<>> THEN MaxCells ELSE MaxCells \div Len(cols)) :
       \E rows \in [1..n -> [DOMAIN cols -> CellValues]] :
           df = Table(n, cols, rows)
    /\ df_before = df
    /\ args = NoArgs
    /\ op = "none"
    /\ raised = "none"
    /\ result = EmptyFrame
    /\ is_df = FALSE
    /\ CalculatorsIdle

\* The call has happened with outcome out.
Called(name, out) ==
    /\ op' = name
    /\ raised' = out.raised
    /\ df' = out.df
    /\ result' = out.table
    /\ is_df' = out.same
    /\ UNCHANGED <<issues, today, df_before>>
    /\ UNCHANGED calculator_vars

FilterByColumns ==
    /\ op = "none"
    /\ \E names \in NameLists :
        /\ args' = [args EXCEPT !.output_columns = names]
        /\ Called("filter_by_columns", filter_by_columns(df, names))

FilterByThreshold ==
    /\ op = "none"
    /\ \E threshold \in Thresholds :
        /\ args' = [args EXCEPT !.threshold = threshold]
        /\ Called("filter_by_threshold", filter_by_threshold(df, threshold))

FilterByWindow ==
    /\ op = "none"
    /\ \E window \in Windows :
        /\ args' = [args EXCEPT !.window = window]
        /\ Called("filter_by_window", filter_by_window(df, window))

SortColumsByLastRow ==
    /\ op = "none"
    /\ \E ascending \in BOOLEAN :
        /\ args' = [args EXCEPT !.ascending = ascending]
        /\ \E out \in sort_colums_by_last_row(df, ascending) :
               Called("sort_colums_by_last_row", out)

NextFilters ==
    FilterByColumns \/ FilterByThreshold \/ FilterByWindow \/ SortColumsByLastRow

SpecFilters == InitFilters /\ [][NextFilters]_vars

----------------------------------------------------------------------------
(* Claims about the filters (checked under SpecFilters) *)

\* The cell of table t in row r under the column labelled c.
Cell(t, r, c) == t.data[r][column_position(t, c)]

\* The positions of names whose name is a column of the table handed in, and
\* the k-th of them.
Kept(names) == {i \in DOMAIN names : names[i] \in Range(df_before.columns)}
KthKept(names, k) ==
    CHOOSE i \in Kept(names) : Cardinality({j \in Kept(names) : j < i}) = k - 1

\* C5: filter_by_columns with a non-empty list of names returns exactly the
\* columns that occur both in names and in the table, in the order of names,
\* every row's values for those columns unchanged; with an empty (or absent)
\* list it returns the table unchanged.
C5_FilterByColumns ==
    op = "filter_by_columns" =>
        /\ raised = "none"
        /\ args.output_columns = <<>> => (is_df /\ result = df_before)
        /\ args.output_columns # <<>> =>
            LET names == args.output_columns
            IN /\ result.index = df_before.index
               /\ Len(result.columns) = Cardinality(Kept(names))
               /\ Len(result.data) = Len(df_before.data)
               /\ \A k \in DOMAIN result.columns :
                      /\ result.columns[k] = names[KthKept(names, k)]
                      /\ \A r \in DOMAIN result.data :
                             /\ Len(result.data[r]) = Len(result.columns)
                             /\ result.data[r][k] = Cell(df_before, r, result.columns[k])

\* C5 witness: the names b, zz, a were applied to a table with the columns a, b
\* and at least one row; b and a came back in that order.
C5_Witness ==
    /\ op = "filter_by_columns"
    /\ args.output_columns = <<"b", "zz", "a">>
    /\ df_before.columns = <<"a", "b">>
    /\ Len(df_before.data) > 0
    /\ result.columns = <<"b", "a">>

\* C6: filter_by_threshold conserves rows and row totals: for every table and
\* every threshold the output has as many rows as the input, and every row's
\* output values (Others included) add up to the row's original values.
C6_ThresholdConserves ==
    op = "filter_by_threshold" =>
        /\ raised = "none"
        /\ Len(result.data) = Len(df_before.data)
        /\ \A r \in DOMAIN df_before.data :
               SumSeq(result.data[r]) = SumSeq(df_before.data[r])

\* The columns of the table handed in that the claim calls qualifying: in every
\* row, value * 100 / (total of the second row) is below the threshold.
Qualifying ==
    LET second_total == SumSeq(df_before.data[2])
    IN {c \in DOMAIN df_before.columns :
           \A r \in DOMAIN df_before.data :
               second_total > 0 /\
               df_before.data[r][c] * 100 < args.threshold * second_total}

\* C7: filter_by_threshold with a non-zero threshold removes exactly the
\* qualifying columns; the output is the other columns in their original order
\* followed by "Others" as the last column, each row's "Others" being the sum
\* of the row's qualifying columns.  With a zero threshold the table is
\* returned unchanged.
C7_ThresholdCollapses ==
    op = "filter_by_threshold" =>
        /\ raised = "none"
        /\ args.threshold = 0 => (is_df /\ result = df_before)
        /\ args.threshold # 0 =>
            LET others == [r \in DOMAIN df_before.data |->
                              SumSet([c \in Qualifying |-> df_before.data[r][c]], Qualifying)]
                staying == SelectSeq(df_before.columns,
                               LAMBDA c : column_position(df_before, c) \notin Qualifying)
            IN /\ result.index = df_before.index
               /\ result.columns = Append(staying, "Others")
               /\ \A r \in DOMAIN df_before.data :
                      result.data[r] =
                          Append([k \in DOMAIN staying |-> Cell(df_before, r, staying[k])],
                                 others[r])

\* C8: filter_by_threshold of the single row {a: 1, b: 99} with threshold 50
\* returns the columns b, Others with the values 99, 1.
C8_SingleRowScenario ==
    ( /\ op = "filter_by_threshold"
      /\ args.threshold = 50
      /\ df_before.columns = <<"a", "b">>
      /\ df_before.data = <<<<1, 99>>>> ) =>
        /\ raised = "none"
        /\ result.columns = <<"b", "Others">>
        /\ result.data = <<<<99, 1>>>>

\* C9: no filter changes the table it is handed: after the call the table
\* object has the columns, rows and cells it had before.
C9_InputNotMutated ==
    op \in {"filter_by_columns", "filter_by_threshold", "filter_by_window",
            "sort_colums_by_last_row"} =>
        df = df_before

\* The position in the table handed in of the result's k-th column.
Origin(k) == column_position(df_before, result.columns[k])

\* The result of a sort holds the rows handed in, the columns moved as a whole
\* and ordered by their value in the last row as asked (descending by default).
SortedByLastRow ==
    LET n == Len(df_before.data)
    IN /\ result.index = df_before.index
       /\ Len(result.data) = n
       /\ Len(result.columns) = Len(df_before.columns)
       /\ Range(result.columns) = Range(df_before.columns)
       /\ \A r \in DOMAIN result.data : \A k \in DOMAIN result.columns :
              result.data[r][k] = df_before.data[r][Origin(k)]
       /\ \A j, k \in DOMAIN result.columns :
              j < k => IF args.ascending THEN result.data[n][j] <= result.data[n][k]
                       ELSE result.data[n][j] >= result.data[n][k]

\* Columns with equal values in the last row keep their original relative order.
StableForTies ==
    LET n == Len(df_before.data)
    IN \A j, k \in DOMAIN result.columns :
           (j < k /\ result.data[n][j] = result.data[n][k]) => Origin(j) < Origin(k)

NothingToSort == Len(df_before.index) = 0 \/ Len(df_before.columns) = 0

\* C10 as claimed: sort_colums_by_last_row returns the table unchanged when it
\* has zero rows or zero columns; otherwise the same rows with the columns
\* reordered by their value in the last row, descending by default, columns
\* with equal last-row values keeping their original relative order.
C10_SortStable ==
    op = "sort_colums_by_last_row" =>
        /\ raised = "none"
        /\ NothingToSort => (is_df /\ result = df_before)
        /\ ~NothingToSort => (SortedByLastRow /\ StableForTies)

\* C10 as amended: as claimed, except that the relative order of columns with
\* equal last-row values is not determined.
C10_SortByLastRow ==
    op = "sort_colums_by_last_row" =>
        /\ raised = "none"
        /\ NothingToSort => (is_df /\ result = df_before)
        /\ ~NothingToSort => SortedByLastRow

\* C10 witness: a default (descending) sort moved the column with the larger
\* last-row value in front of the other.
C10_Witness ==
    /\ op = "sort_colums_by_last_row"
    /\ ~args.ascending
    /\ Len(df_before.data) = 2
    /\ df_before.columns = <<"a", "b">>
    /\ result.columns = <<"b", "a">>
    /\ df_before.data[2] = <<1, 99>>

\* C11: filter_by_window returns the table unchanged when window is falsy;
\* otherwise exactly the trailing min(window, row count) rows in their original
\* order, and every row, without an error, when window >= row count.
C11_FilterByWindow ==
    op = "filter_by_window" =>
        LET n == Len(df_before.index)
            kept == IF args.window < n THEN args.window ELSE n
        IN /\ raised = "none"
           /\ args.window = 0 => (is_df /\ result = df_before)
           /\ args.window # 0 =>
                /\ result.columns = df_before.columns
                /\ Len(result.index) = kept
                /\ Len(result.data) = kept
                /\ \A i \in 1..kept :
                       /\ result.index[i] = df_before.index[n - kept + i]
                       /\ result.data[i] = df_before.data[n - kept + i]
           /\ args.window >= n => result = df_before

\* C11 witness: a window of 3 cut a table of five rows down to its last three.
C11_Witness ==
    /\ op = "filter_by_window"
    /\ args.window = 3
    /\ Len(df_before.index) = 5
    /\ result.index = <<3, 4, 5>>
    /\ \E r \in DOMAIN df_before.data : df_before.data[r] # df_before.data[5]

----------------------------------------------------------------------------
(* calculators/defects.py: DefectsCalculator.write, one step per statement *)

\* The charts in the order write() takes them.
DefectCharts == <<"priority", "type", "environment">>
chart_position(c) == CHOOSE i \in DOMAIN DefectCharts : DefectCharts[i] = c

\* A priority chart that sorts like the others.
sort_always(field) == TRUE

\* The sort argument of _write_defects_by_field_chart: write_defects_by_priority_chart
\* passes sort=False, the other two leave the default True.
sort_of(field) == field # "priority"

\* chart_data as breakdown_by_month reads it for one field: the columns
\* "created", "resolved", "key" and the field's column.
items_by_field(rows, field) ==
    [i \in DOMAIN rows |->
        [key |-> rows[i].key, value |-> rows[i][field],
         start |-> rows[i].created, end |-> rows[i].resolved]]

\* The next configured chart after the chart c ("none": before the first), or
\* "none" when write() has no chart left.
next_chart(configured, c) ==
    LET from == IF c = "none" THEN 1 ELSE chart_position(c) + 1
        left == {i \in from..Len(DefectCharts) : DefectCharts[i] \in configured}
    IN IF left = {} THEN "none" ELSE DefectCharts[CHOOSE i \in left : \A j \in left : i <= j]

\* The record of one table stage: its name and the shape of the table it returned.
Stage(name, table) ==
    [stage |-> name, rows |-> Len(table.index), columns |-> Len(table.columns)]

\* The issues of the defects query: 2 January (resolved the same day) or
\* 20 January (still open); the environment field is not configured, so every
\* issue's environment is None.
DefectIssues ==
    [priority : {"high", "med"}, type : {"a", "b"}, environment : {None},
     created : {2}, resolved : {2}]
    \cup [priority : {"high", "med"}, type : {"a", "b"}, environment : {None},
          created : {20}, resolved : {NaT}]

\* The lists of known values and the thresholds the settings may hold for a chart.
DefectValueLists == {<<>>, <<"med", "high", "b", "a">>, <<"zz">>}
DefectThresholds == {0, 50}
DefectWindows == {0, 1}

\* The DataFrame run() builds of the issues s: row i carries the key i.
DefectFrame(s) ==
    [i \in DOMAIN s |-> [key |-> i, priority |-> s[i].priority, type |-> s[i].type,
                         environment |-> s[i].environment,
                         created |-> s[i].created, resolved |-> s[i].resolved]]

\* write() is about to run: run() returned None (no query) or the DataFrame of
\* the issues found; the settings name the charts that have an output file and
\* the window.  The values and the threshold of a chart are drawn when the
\* chart reads them (each is read once).
InitDefects ==
    /\ issues = <<>>
    /\ today = Max(Todays)
    /\ df = EmptyFrame
    /\ df_before = EmptyFrame
    /\ args = NoArgs
    /\ op = "none"
    /\ raised = "none"
    /\ result = EmptyFrame
    /\ is_df = FALSE
    /\ \E configured \in SUBSET Range(DefectCharts) : \E window \in DefectWindows :
           settings = [name |-> "defects", charts |-> configured, window |-> window]
    /\ \/ chart_data = NoChartData
       \/ \E s \in SeqsUpTo(DefectIssues, MaxItems) :
              chart_data = [none |-> FALSE, rows |-> DefectFrame(s)]
    /\ pc = "write"
    /\ chart = "none"
    /\ breakdown = EmptyFrame
    /\ stages = <<>>
    /\ rendered = {}

\* The variables the steps of write() leave alone.
defects_frame == <<issues, today, df, op, is_df, settings, chart_data>>

\* write(): nothing to draw when run() returned None or found no issue.
DefectsWrite ==
    /\ pc = "write"
    /\ pc' = IF chart_data.none \/ Len(chart_data.rows) = 0 THEN "done" ELSE "select"
    /\ UNCHANGED <<defects_frame, df_before, args, raised, result, chart, breakdown,
                   stages, rendered>>

\* write(): the next chart whose output file is set is written, with the
\* values, window and threshold of its settings; write() returns after the last.
DefectsSelectChart ==
    /\ pc = "select"
    /\ LET c == next_chart(settings.charts, chart)
       IN IF c = "none"
          THEN /\ pc' = "done"
               /\ UNCHANGED <<args, chart, breakdown, stages>>
          ELSE /\ pc' = "breakdown_by_month"
               /\ chart' = c
               /\ \E field_values \in DefectValueLists : \E threshold \in DefectThresholds :
                      args' = [output_columns |-> field_values, threshold |-> threshold,
                               window |-> settings.window, ascending |-> FALSE]
               /\ breakdown' = EmptyFrame
               /\ stages' = <<>>
    /\ UNCHANGED <<defects_frame, df_before, raised, result, rendered>>

\* A table stage was handed the table input and returned the table output.
StageDone(name, input, output, next) ==
    /\ df_before' = input
    /\ result' = output
    /\ breakdown' = output
    /\ stages' = Append(stages, Stage(name, output))
    /\ pc' = next
    /\ UNCHANGED <<defects_frame, args, raised, chart, rendered>>

\* breakdown_by_month(chart_data, "created", "resolved", "key", field)
DefectsBreakdown ==
    /\ pc = "breakdown_by_month"
    /\ LET out == breakdown_by_month(items_by_field(chart_data.rows, chart), today)
       IN StageDone("breakdown_by_month", EmptyFrame, out.table, "filter_by_columns")

\* filter_by_columns(..., field_values)
DefectsFilterByColumns ==
    /\ pc = "filter_by_columns"
    /\ StageDone("filter_by_columns", breakdown,
                 filter_by_columns(breakdown, args.output_columns).table, "filter_by_window")

\* filter_by_window(..., window)
DefectsFilterByWindow ==
    /\ pc = "filter_by_window"
    /\ StageDone("filter_by_window", breakdown,
                 filter_by_window(breakdown, args.window).table, "sort")

\* if sort: breakdown = sort_colums_by_last_row(breakdown)
DefectsSort ==
    /\ pc = "sort"
    /\ IF sort_of(chart)
       THEN \E out \in sort_colums_by_last_row(breakdown, FALSE) :
                StageDone("sort_colums_by_last_row", breakdown, out.table, "filter_by_threshold")
       ELSE /\ pc' = "filter_by_threshold"
            /\ UNCHANGED <<defects_frame, df_before, args, raised, result, chart,
                           breakdown, stages, rendered>>

\* breakdown = filter_by_threshold(breakdown, threshold); an exception of the
\* filter leaves write() (nothing catches it).
DefectsFilterByThreshold ==
    /\ pc = "filter_by_threshold"
    /\ LET out == filter_by_threshold(breakdown, args.threshold)
       IN IF out.raised # "none"
          THEN /\ raised' = out.raised
               /\ df_before' = breakdown
               /\ pc' = "done"
               /\ UNCHANGED <<defects_frame, args, result, chart, breakdown, stages,
                              rendered>>
          ELSE StageDone("filter_by_threshold", breakdown, out.table, "draw")

\* The chart is skipped when the table has no row or no column, and drawn and
\* saved otherwise.
DefectsDraw ==
    /\ pc = "draw"
    /\ rendered' = IF Len(breakdown.index) = 0 \/ Len(breakdown.columns) = 0
                   THEN rendered ELSE rendered \cup {chart}
    /\ pc' = "select"
    /\ UNCHANGED <<defects_frame, df_before, args, raised, result, chart, breakdown,
                   stages>>

NextDefects ==
    \/ DefectsWrite
    \/ DefectsSelectChart
    \/ DefectsBreakdown
    \/ DefectsFilterByColumns
    \/ DefectsFilterByWindow
    \/ DefectsSort
    \/ DefectsFilterByThreshold
    \/ DefectsDraw

SpecDefects == InitDefects /\ [][NextDefects]_vars

----------------------------------------------------------------------------
(* Claims on DefectsCalculator.write *)

\* The stages of the chart being written at which the table had no row or no
\* column after the column, window, sort or threshold filter.
EmptyStages ==
    {i \in DOMAIN stages :
        /\ stages[i].stage # "breakdown_by_month"
        /\ (stages[i].rows = 0 \/ stages[i].columns = 0)}

\* C12: when the data of a defects chart is empty at any stage (no issue
\* fetched, or no row or no column left after the column, window, sort or
\* threshold filter), the renderer is never invoked for that chart and no
\* exception is raised.
C12_EmptyNeverRendered ==
    settings.name = "defects" =>
        /\ (chart_data.none \/ Len(chart_data.rows) = 0) =>
               (rendered = {} /\ raised = "none")
        /\ EmptyStages # {} => (chart \notin rendered /\ raised = "none")

\* C14: a failure of one chart does not keep write() from computing the
\* remaining configured charts: when write() has ended on fetched issues, no
\* configured chart is left unwritten.
C14_ChartFailureIsolated ==
    (settings.name = "defects" /\ pc = "done" /\ ~chart_data.none
        /\ Len(chart_data.rows) > 0) =>
        next_chart(settings.charts, chart) = "none"

\* The names of the stages the chart being written has been through, and the
\* stages a chart of the field c goes through.
StageNames == [i \in DOMAIN stages |-> stages[i].stage]
ExpectedStages(c) ==
    IF c \in {"type", "environment"}
    THEN <<"breakdown_by_month", "filter_by_columns", "filter_by_window",
           "sort_colums_by_last_row", "filter_by_threshold">>
    ELSE <<"breakdown_by_month", "filter_by_columns", "filter_by_window",
           "filter_by_threshold">>

\* The columns of t stand in descending order of their value in the last row.
DescendingLastRow(t) ==
    Len(t.data) > 0 =>
        \A j, k \in DOMAIN t.columns :
            j < k => t.data[Len(t.data)][j] >= t.data[Len(t.data)][k]

\* C16: a defects chart goes through its stages in the order breakdown_by_month,
\* filter_by_columns, filter_by_window, sort_colums_by_last_row (for the type
\* and environment charts, never for the priority chart), filter_by_threshold;
\* the table handed to filter_by_threshold is the windowed and sorted one.
C16_StageOrder ==
    (settings.name = "defects" /\ chart # "none") =>
        /\ Len(StageNames) <= Len(ExpectedStages(chart))
        /\ \A i \in DOMAIN StageNames : StageNames[i] = ExpectedStages(chart)[i]
        /\ pc = "filter_by_threshold" =>
               Len(StageNames) = Len(ExpectedStages(chart)) - 1
        /\ pc = "draw" =>
               /\ StageNames = ExpectedStages(chart)
               /\ args.window # 0 => Len(df_before.index) <= args.window
               /\ chart \in {"type", "environment"} => DescendingLastRow(df_before)

\* The type chart is about to be drawn from the columns b, a of the known
\* values, sorted to a, b by the last month's counts 1 and 0.
C16_Witness ==
    /\ settings.name = "defects"
    /\ chart = "type"
    /\ pc = "draw"
    /\ args.output_columns = <<"med", "high", "b", "a">>
    /\ df_before.columns = <<"a", "b">>
    /\ Len(df_before.data) > 1
    /\ df_before.data[Len(df_before.data)] = <<1, 0>>

----------------------------------------------------------------------------
(* calculators/netflow.py and calculators/waste.py: run() and write() *)

\* The configured workflow: the stages in order, each with the statuses it covers.
Workflow ==
    <<[name |-> "Backlog", statuses |-> <<"Backlog">>],
      [name |-> "Doing", statuses |-> <<"In Progress">>],
      [name |-> "Done", statuses |-> <<"Closed">>]>>

\* cycle_names = [s["name"] for s in self.settings["cycle"]]
cycle_names_of(cycle) == [i \in DOMAIN cycle |-> cycle[i].name]

\* str.lower() on the status names in use.
lower(s) ==
    CASE s = "Backlog" -> "backlog"
      [] s = "In Progress" -> "in progress"
      [] s = "IN PROGRESS" -> "in progress"
      [] s = "Closed" -> "closed"
      [] s = "Done" -> "done"
      [] s = "Unknown" -> "unknown"
      [] OTHER -> s

\* cycle_lookup: the stages whose statuses hold the lowered status key; the
\* dict keeps the last stage written for a key.
stages_of_status(cycle, key) ==
    {i \in DOMAIN cycle : \E j \in DOMAIN cycle[i].statuses : lower(cycle[i].statuses[j]) = key}
cycle_lookup(cycle, key) == cycle[Max(stages_of_status(cycle, key))]

\* list.remove(x): the list without the first x, ValueError when x is absent.
list_remove(list, x) ==
    IF x \notin Range(list)
    THEN [raised |-> "ValueError", list |-> list]
    ELSE LET at == Min({i \in DOMAIN list : list[i] = x})
         IN [raised |-> "none",
             list |-> [i \in 1..(Len(list) - 1) |-> IF i < at THEN list[i] ELSE list[i + 1]]]

\* The settings of one calculator over the workflow.
Settings(name, backlog, committed, done, query, output_file, frequency, window) ==
    [name |-> name, cycle |-> Workflow, backlog_column |-> backlog,
     committed_column |-> committed, done_column |-> done, query |-> query,
     output_file |-> output_file, frequency |-> frequency, window |-> window]

\* The idle values of the variables the two calculators do not use.
utils_idle ==
    /\ today = Max(Todays)
    /\ df_before = EmptyFrame
    /\ args = NoArgs
    /\ op = "none"
    /\ result = EmptyFrame
    /\ is_df = FALSE
    /\ chart = "none"
    /\ stages = <<>>

(* NetFlowChartCalculator *)

\* The number of periods of f days that n daily rows fall into, and the days
\* of period k.
period_count(n, f) == (n + f - 1) \div f
period_days(n, f, k) == {d \in 1..n : (d - 1) \div f = k - 1}

\* cfd_data[[column]].resample(frequency, label="left").max()
resample_max(cfd, column, f) ==
    [k \in 1..period_count(Len(cfd.index), f) |->
        Max({Cell(cfd, d, column) : d \in period_days(Len(cfd.index), f, k)})]

\* series.diff().fillna(series): the first period keeps its value.
diff_fill_first(series) ==
    [k \in DOMAIN series |-> IF k = 1 THEN series[1] ELSE series[k] - series[k - 1]]

\* net_flow_data["net_flow"] = net_flow_data["arrivals"] - net_flow_data["departures"]
net_flow(arrivals, departures) ==
    [k \in DOMAIN arrivals |-> arrivals[k] - departures[k]]

\* run() on the cumulative flow table cfd: None when the committed or the done
\* column is no stage of the workflow, else one row per period.
net_flow_run(cfd, s) ==
    IF s.committed_column \notin Range(cycle_names_of(s.cycle))
    THEN NoChartData
    ELSE IF s.done_column \notin Range(cycle_names_of(s.cycle))
    THEN NoChartData
    ELSE LET arrivals == diff_fill_first(resample_max(cfd, s.committed_column, s.frequency))
             departures == diff_fill_first(resample_max(cfd, s.done_column, s.frequency))
             flow == net_flow(arrivals, departures)
         IN [none |-> FALSE,
             rows |-> [k \in DOMAIN arrivals |->
                          [period |-> (k - 1) * s.frequency + 1, arrivals |-> arrivals[k],
                           departures |-> departures[k], net_flow |-> flow[k]]]]

\* The cumulative counts of one day: every item of a stage has been through
\* the stages before it.
CfdRows == {r \in [Backlog : 0..2, Doing : 0..2, Done : 0..2] :
               r.Backlog >= r.Doing /\ r.Doing >= r.Done}

\* The cumulative flow tables of up to three days, counts never falling.
CfdDays ==
    {<<>>} \cup {<<r>> : r \in CfdRows}
    \cup {p \in CfdRows \X CfdRows :
              p[2].Backlog = 2 /\ p[2].Doing >= p[1].Doing /\ p[2].Done >= p[1].Done}
    \cup {<<[Backlog |-> 1, Doing |-> 1, Done |-> 0], [Backlog |-> 2, Doing |-> 1, Done |-> 1], q>> :
              q \in {x \in CfdRows : x.Backlog = 2 /\ x.Done >= 1}}

\* The DataFrame of the cumulative flow: a row per day, a column per stage.
CfdFrame(days) ==
    [index |-> [d \in DOMAIN days |-> d],
     columns |-> cycle_names_of(Workflow),
     data |-> [d \in DOMAIN days |-> <<days[d].Backlog, days[d].Doing, days[d].Done>>]]

\* The stage names the settings may give: a stage of the workflow or none.
ColumnNames(stage) == {stage, "Missing"}

\* chart_data[["net_flow"]]
net_flow_column(rows) ==
    [index |-> [k \in DOMAIN rows |-> rows[k].period],
     columns |-> <<"net_flow">>,
     data |-> [k \in DOMAIN rows |-> <<rows[k].net_flow>>]]

(* WasteCalculator *)

\* The status histories of the issues found: the from_string of each status
\* change in order ("Done" and "Unknown" are statuses of no stage).
StatusHistories ==
    {<<>>, <<"IN PROGRESS">>, <<"In Progress", "Closed">>, <<"Closed", "Backlog">>,
     <<"Done">>, <<"Unknown">>}

\* The issues of the waste query: unresolved, or resolved on 2 January or
\* 28 February.
WasteIssues ==
    [resolution : {None}, status_changes : StatusHistories, resolutiondate : {NaT}]
    \cup [resolution : {"Withdrawn"}, status_changes : StatusHistories,
          resolutiondate : {2, 59}]

\* The issues as find_issues yields them: issue i carries the key i.
found_issues(s) ==
    [i \in DOMAIN s |-> [key |-> i, resolution |-> s[i].resolution,
                         status_changes |-> s[i].status_changes,
                         resolutiondate |-> s[i].resolutiondate]]

\* last_status of an issue: the from_string of its last status change (None
\* without one), replaced by the name of its stage when the lowered status is
\* a key of cycle_lookup.
last_status_of(cycle, issue) ==
    LET changes == issue.status_changes
        from_string == IF Len(changes) > 0 THEN changes[Len(changes)] ELSE None
    IN IF from_string # None /\ stages_of_status(cycle, lower(from_string)) # {}
       THEN cycle_lookup(cycle, lower(from_string)).name
       ELSE from_string

\* The loop of run() keeps an issue when it has a resolution and its
\* last_status is neither the backlog nor the done column.
waste_recorded(issue, s) ==
    /\ issue.resolution # None
    /\ last_status_of(s.cycle, issue) \notin {s.backlog_column, s.done_column}

\* run(): None without a query, else a row per issue kept.
waste_run(found, s) ==
    IF ~s.query
    THEN NoChartData
    ELSE LET kept == SelectSeq(found, LAMBDA issue : waste_recorded(issue, s))
         IN [none |-> FALSE,
             rows |-> [i \in DOMAIN kept |->
                          [key |-> kept[i].key,
                           last_status |-> last_status_of(s.cycle, kept[i]),
                           resolution |-> kept[i].resolution,
                           withdrawn_date |-> kept[i].resolutiondate]]]

\* pivot_table(index="withdrawn_date", columns="last_status", values="key",
\* aggfunc="count").groupby(Grouper(freq, closed="left", label="left")).sum()
\* .reindex(names, axis=1), by month: a row per month from the first to the
\* last withdrawal, a column per name, NaN where the pivot has no such column.
\* Rows whose last_status is None are in the pivot or not (keep_null), as the
\* "str" series holds them as None or as a string.
waste_pivot(rows, names, keep_null) ==
    LET counted == {i \in DOMAIN rows : rows[i].last_status # None \/ keep_null}
        months == {to_period_M(rows[i].withdrawn_date) : i \in counted}
        index == IF months = {} THEN <<>>
                 ELSE [k \in 1..(Max(months) - Min(months) + 1) |-> Min(months) + k - 1]
        pivot_columns == {rows[i].last_status : i \in counted}
    IN [index |-> index,
        columns |-> names,
        data |-> [k \in DOMAIN index |->
                    [c \in DOMAIN names |->
                        IF names[c] \notin pivot_columns THEN NaN
                        ELSE Cardinality({i \in counted :
                                 /\ to_period_M(rows[i].withdrawn_date) = index[k]
                                 /\ rows[i].last_status = names[c]})]]]

(* The two calculators as run() followed by write() *)

FrequencyDays == {1, 2}
CalculatorWindows == {0, 1}

\* A calculator is about to run: the net flow calculator on a cumulative flow
\* table, or the waste calculator on the issues its query finds.
InitCalculators ==
    /\ utils_idle
    /\ raised = "none"
    /\ chart_data = NoChartData
    /\ pc = "run"
    /\ breakdown = EmptyFrame
    /\ rendered = {}
    /\ \/ /\ issues = <<>>
          /\ \E days \in CfdDays : df = CfdFrame(days)
          /\ \E committed \in ColumnNames("Doing") : \E done \in ColumnNames("Done") :
             \E output_file \in BOOLEAN : \E frequency \in FrequencyDays :
             \E window \in CalculatorWindows :
                 settings = Settings("netflow", "Backlog", committed, done, FALSE,
                                     output_file, frequency, window)
       \/ /\ df = EmptyFrame
          /\ \E s \in SeqsUpTo(WasteIssues, MaxItems) : issues = found_issues(s)
          /\ \E backlog \in ColumnNames("Backlog") : \E done \in ColumnNames("Done") :
             \E query \in BOOLEAN : \E output_file \in BOOLEAN :
             \E window \in CalculatorWindows :
                 settings = Settings("waste", backlog, "Doing", done, query,
                                     output_file, 1, window)

\* The variables run() and write() of the two calculators leave alone.
calculators_frame ==
    <<issues, today, df, df_before, args, op, result, is_df, settings, chart, stages>>

\* NetFlowChartCalculator.run
NetFlowRun ==
    /\ settings.name = "netflow"
    /\ pc = "run"
    /\ chart_data' = net_flow_run(df, settings)
    /\ pc' = "write"
    /\ UNCHANGED <<calculators_frame, raised, breakdown, rendered>>

\* NetFlowChartCalculator.write: nothing without an output file; len() of the
\* result's index (AttributeError when run() returned None); nothing for zero
\* rows; else the windowed net_flow column is drawn.
NetFlowWrite ==
    /\ settings.name = "netflow"
    /\ pc = "write"
    /\ pc' = "done"
    /\ IF ~settings.output_file
       THEN UNCHANGED <<raised, breakdown, rendered>>
       ELSE IF chart_data.none
       THEN /\ raised' = "AttributeError"
            /\ UNCHANGED <<breakdown, rendered>>
       ELSE IF Len(chart_data.rows) = 0
       THEN UNCHANGED <<raised, breakdown, rendered>>
       ELSE /\ breakdown' = filter_by_window(net_flow_column(chart_data.rows),
                                             settings.window).table
            /\ rendered' = rendered \cup {"net_flow"}
            /\ UNCHANGED raised
    /\ UNCHANGED <<calculators_frame, chart_data>>

\* WasteCalculator.run
WasteRun ==
    /\ settings.name = "waste"
    /\ pc = "run"
    /\ chart_data' = waste_run(issues, settings)
    /\ pc' = "write"
    /\ UNCHANGED <<calculators_frame, raised, breakdown, rendered>>

\* WasteCalculator.write: nothing when run() returned None, without an output
\* file or for zero rows; the backlog and the done column are removed from the
\* stage names (ValueError when absent); the windowed pivot is drawn unless it
\* has no row or no column.
WasteWrite ==
    /\ settings.name = "waste"
    /\ pc = "write"
    /\ pc' = "done"
    /\ IF chart_data.none \/ ~settings.output_file \/ Len(chart_data.rows) = 0
       THEN UNCHANGED <<raised, breakdown, rendered>>
       ELSE LET without_backlog == list_remove(cycle_names_of(settings.cycle),
                                               settings.backlog_column)
                without_done == list_remove(without_backlog.list, settings.done_column)
            IN IF without_backlog.raised # "none"
               THEN /\ raised' = without_backlog.raised
                    /\ UNCHANGED <<breakdown, rendered>>
               ELSE IF without_done.raised # "none"
               THEN /\ raised' = without_done.raised
                    /\ UNCHANGED <<breakdown, rendered>>
               ELSE \E keep_null \in BOOLEAN :
                    LET table == filter_by_window(
                                     waste_pivot(chart_data.rows, without_done.list, keep_null),
                                     settings.window).table
                    IN /\ breakdown' = table
                       /\ rendered' = IF Len(table.index) = 0 \/ Len(table.columns) = 0
                                      THEN rendered ELSE rendered \cup {"waste"}
                       /\ UNCHANGED raised
    /\ UNCHANGED <<calculators_frame, chart_data>>

NextCalculators ==
    \/ NetFlowRun
    \/ NetFlowWrite
    \/ WasteRun
    \/ WasteWrite

SpecCalculators == InitCalculators /\ [][NextCalculators]_vars

----------------------------------------------------------------------------
(* Claims on the net flow and the waste calculator *)

\* The committed or done column (net flow), or the backlog or done column
\* (waste), is no stage of the workflow.
ConfigurationError ==
    LET names == Range(cycle_names_of(settings.cycle))
    IN \/ settings.name = "netflow"
          /\ (settings.committed_column \notin names \/ settings.done_column \notin names)
       \/ settings.name = "waste"
          /\ (settings.backlog_column \notin names \/ settings.done_column \notin names)

\* C13: with a configuration error the calculation returns no result, neither
\* run() nor the following write() of the net flow or waste calculator raises
\* an exception, and no chart is rendered.
C13_ConfigErrorNotFatal ==
    ConfigurationError =>
        /\ pc # "run" => chart_data.none
        /\ raised = "none"
        /\ rendered = {}

\* The stage the last status of an issue before its resolution maps to
\* (through the lowered statuses of the stages), "unknown" for a status of no
\* stage and for an issue without a status change.
MappedStage(issue) ==
    LET changes == issue.status_changes
        mapped == {i \in DOMAIN settings.cycle :
                      /\ Len(changes) > 0
                      /\ \E j \in DOMAIN settings.cycle[i].statuses :
                             lower(settings.cycle[i].statuses[j]) = lower(changes[Len(changes)])}
    IN IF mapped = {} THEN "unknown" ELSE settings.cycle[Max(mapped)].name

\* C15: WasteCalculator.run records an issue exactly when it is resolved and
\* the stage its last status before the resolution maps to is neither the
\* backlog nor the done stage; a resolved issue with an unmapped last status,
\* or without a status change, is recorded.
C15_WasteRecorded ==
    (settings.name = "waste" /\ pc # "run" /\ settings.query) =>
        /\ ~chart_data.none
        /\ {chart_data.rows[i].key : i \in DOMAIN chart_data.rows}
               = {issues[i].key : i \in
                     {j \in DOMAIN issues :
                         /\ issues[j].resolution # None
                         /\ (MappedStage(issues[j]) = "unknown"
                             \/ MappedStage(issues[j])
                                    \notin {settings.backlog_column, settings.done_column})}}

====
